---------------------------- MODULE Spec2Model ----------------------------
(***************************************************************************)
(* A model of the orbweaver labelled directed graph library:               *)
(*   - the interner (utils/interner.rs) and the three-state adjacency      *)
(*     slots (utils/node_map.rs),                                          *)
(*   - DirectedGraphBuilder (directed/builder.rs),                         *)
(*   - the query engine of DirectedGraph (directed/mod.rs),                *)
(*   - the Kahn topological sort and DirectedAcyclicGraph                  *)
(*     (directed/acyclic/).                                                *)
(* Symbols are the naturals the interner hands out (densely, from 0);      *)
(* labels are the naturals 1..NumLabels.  A hash set's iteration order is  *)
(* not fixed by the language; a graph carries an order kind `ord` and      *)
(* every iteration over one of its sets follows it.                        *)
(***************************************************************************)
EXTENDS Naturals, Integers, Sequences, FiniteSets, TLC

\* ---------------------------------------------------------------- bounds
\* Number of distinct labels a caller may use.
NumLabels == 4
\* Number of add_edge calls made on one builder.
MaxEdges == 4
\* Number of targets handed to one find_path_one_to_many call.
MaxTargets == 2
\* Largest depth limit handed to a subset operation.
MaxLimit == 3
\* Number of seeds handed to one subset_multi or get_leaves_under call.
MaxSeeds == 2
\* calls made one after another on one graph instance
MaxQueries == 2

Labels == 1..NumLabels

\* The iteration orders a hash set of symbols may present.
OrderKinds == {"asc", "desc"}

\* ------------------------------------------------------- program constants
\* Sym::RESERVED = Sym::new(u32::MAX): the 32-bit pattern 0xFFFFFFFF, which in
\* TLC's signed 32-bit integers is -1.  Symbols are compared to it
\* only for equality.
RESERVED == -1
\* The value DirectedAcyclicGraph::find_all_paths writes between two paths.
DagPathSeparator == 0

\* ------------------------------------------------------------- sequences
Range(s) == {s[i] : i \in 1..Len(s)}

Min(S) == CHOOSE x \in S : \A y \in S : x <= y

RECURSIVE SortedSeq(_)
\* The elements of a set of numbers, ascending.
SortedSeq(S) == IF S = {} THEN <<>>
                ELSE LET m == Min(S) IN <<m>> \o SortedSeq(S \ {m})

Reverse(s) == [i \in 1..Len(s) |-> s[Len(s) + 1 - i]]

\* The vector as it was collected, neither sorted nor deduplicated.
AsCollected(s) == s

\* Vec::sort_unstable followed by Vec::dedup.
SortDedup(s) == SortedSeq(Range(s))

\* The order in which a hash set hands out its elements.
Iter(S, o) == IF o = "asc" THEN SortedSeq(S) ELSE Reverse(SortedSeq(S))

IsStrictlyAscending(s) == \A i \in 1..(Len(s) - 1) : s[i] < s[i + 1]

\* --------------------------------------------------------------- LazySet
Uninitialized == [tag |-> "Uninitialized", set |-> {}]
Empty == [tag |-> "Empty", set |-> {}]
Initialized(S) == [tag |-> "Initialized", set |-> S]

is_initialized(ls) == ls.tag = "Initialized"
is_empty(ls) == ls.tag = "Empty"
is_uninitialized(ls) == ls.tag = "Uninitialized"

\* LazySet::or_init followed by insert(v) on a slot that is not Empty.
or_init_insert(ls, v) ==
    IF is_uninitialized(ls) THEN Initialized({v}) ELSE Initialized(ls.set \cup {v})

into_empty(ls) == Empty

\* NodeMap::new(n): n slots, all Uninitialized, indexed by symbol.
NodeMapNew(n) == [i \in 0..(n - 1) |-> Uninitialized]

contains_key(map, key) == key \in DOMAIN map /\ is_initialized(map[key])

initialized_keys(map) == SortedSeq({i \in DOMAIN map : is_initialized(map[i])})

\* -------------------------------------------------------------- interner
\* InternerBuilder::get_or_intern on the builder's (map_strs, count).
get_or_intern(map, cnt, val) ==
    IF val \in DOMAIN map
    THEN [sym |-> map[val], map |-> map, count |-> cnt]
    ELSE [sym |-> cnt, map |-> (val :> cnt) @@ map, count |-> cnt + 1]

\* InternerBuilder::build: the Resolver, strs indexed by symbol.
InternerBuild(map) ==
    [strs_map |-> map,
     strs |-> [i \in 0..(Cardinality(DOMAIN map) - 1) |->
                 CHOOSE l \in DOMAIN map : map[l] = i]]

ResolverLen(r) == Cardinality(DOMAIN r.strs)

\* Resolver::get
ResolverGet(r, val) == IF val \in DOMAIN r.strs_map THEN r.strs_map[val] ELSE -1

\* Resolver::resolve_many_unchecked_from_slice
resolve_mul_slice(r, syms) == [i \in 1..Len(syms) |-> r.strs[syms[i]]]

\* ---------------------------------------------------------------- builder
find_leaves(ps, cs) ==
    SortDedup(SelectSeq(cs, LAMBDA c : c \notin Range(ps)))

\* Every parent taken as a root, without the filter on the children.
find_roots_unfiltered(ps, cs) ==
    SortDedup(ps)

find_roots(ps, cs) ==
    SortDedup(SelectSeq(ps, LAMBDA p : p \notin Range(cs)))

RECURSIVE BuildChildrenMap(_, _, _, _, _)
\* builder.rs: "for i in 0..self.parents.len()" filling children_map and
\* counting the insertions that added something.
BuildChildrenMap(ps, cs, i, map, n) ==
    IF i > Len(ps) THEN [map |-> map, n_edges |-> n]
    ELSE LET was_added == cs[i] \notin map[ps[i]].set
         IN BuildChildrenMap(ps, cs, i + 1,
                [map EXCEPT ![ps[i]] = or_init_insert(@, cs[i])],
                IF was_added THEN n + 1 ELSE n)

RECURSIVE BuildParentMap(_, _, _, _)
BuildParentMap(ps, cs, i, map) ==
    IF i > Len(ps) THEN map
    ELSE BuildParentMap(ps, cs, i + 1,
            [map EXCEPT ![cs[i]] = or_init_insert(@, ps[i])])

\* "Every parent and child must have been initialized. If it has not that
\* means it's empty."
FillEmpty(map, nodes) ==
    [i \in DOMAIN map |->
        IF i \in Range(nodes) /\ is_uninitialized(map[i]) THEN into_empty(map[i])
        ELSE map[i]]

\* DirectedGraphBuilder::build_directed
build_directed(ps, cs, map_strs) ==
    LET unique_parents == SortDedup(ps)
        unique_children == SortDedup(cs)
        nodes == SortDedup(unique_parents \o unique_children)
        interner == InternerBuild(map_strs)
        cm == BuildChildrenMap(ps, cs, 1, NodeMapNew(ResolverLen(interner)), 0)
        pm == BuildParentMap(ps, cs, 1, NodeMapNew(ResolverLen(interner)))
    IN [interner |-> interner,
        leaves |-> find_leaves(unique_parents, unique_children),
        roots |-> find_roots(unique_parents, unique_children),
        nodes |-> nodes,
        children_map |-> FillEmpty(cm.map, nodes),
        parent_map |-> FillEmpty(pm, nodes),
        n_edges |-> cm.n_edges]

\* ------------------------------------------------------------ DirectedGraph
\* DirectedGraph::get_internal: the symbol of a label, or NodeNotExist(label).
get_internal(gr, val) ==
    LET s == ResolverGet(gr.interner, val)
    IN IF s = -1 THEN [ok |-> FALSE, err |-> val] ELSE [ok |-> TRUE, sym |-> s]

\* DirectedGraph::resolve_mul_slice
resolve(gr, syms) == resolve_mul_slice(gr.interner, syms)

\* The position of the first pair of the log whose first component is id
\* (parents.iter().find(|(node, _)| *node == current_id)), 0 when there is none.
FindPair(log, id) ==
    IF \E i \in 1..Len(log) : log[i][1] = id
    THEN Min({i \in 1..Len(log) : log[i][1] = id})
    ELSE 0

RECURSIVE ConstructWalk(_, _, _, _)
\* The while loop of construct_path.
ConstructWalk(log, start_id, current_id, path) ==
    IF current_id = start_id THEN path
    ELSE LET i == FindPair(log, current_id)
         IN IF i = 0 THEN path
            ELSE ConstructWalk(log, start_id, log[i][2], Append(path, log[i][2]))

\* construct_path without its final path.reverse(): the walk from the goal
\* back to the start, as collected.
construct_path_unreversed(log, start_id, goal_id, path) ==
    ConstructWalk(log, start_id, goal_id, Append(path, goal_id))

\* construct_path(parents, start_id, goal_id, path)
construct_path(log, start_id, goal_id, path) ==
    Reverse(ConstructWalk(log, start_id, goal_id, Append(path, goal_id)))

\* VecDeque::push_back
push_back(queue, x) == Append(queue, x)

RECURSIVE FindPathChildren(_, _, _, _, _, _)
\* find_path: "for &child in children.iter()".
FindPathChildren(from, to, current, cs, i, st) ==
    IF i > Len(cs) THEN st
    ELSE IF cs[i] \in st.visited
         THEN FindPathChildren(from, to, current, cs, i + 1, st)
         ELSE LET st1 == [st EXCEPT !.visited = @ \cup {cs[i]},
                                    !.parents = Append(@, <<cs[i], current>>)]
              IN IF cs[i] = to
                 THEN [st1 EXCEPT
                         !.path_buf = construct_path(st1.parents, from, to, st1.path_buf),
                         !.done = TRUE]
                 ELSE FindPathChildren(from, to, current, cs, i + 1,
                         [st1 EXCEPT !.queue = push_back(@, cs[i])])

RECURSIVE FindPathLoop(_, _, _, _, _)
\* find_path: "'outer: while let Some(current) = queue.pop_front()".
FindPathLoop(gr, o, from, to, st) ==
    IF st.done \/ st.queue = <<>> THEN st
    ELSE LET current == Head(st.queue)
             st1 == [st EXCEPT !.queue = Tail(@)]
         IN IF is_initialized(gr.children_map[current])
            THEN FindPathLoop(gr, o, from, to,
                    FindPathChildren(from, to, current,
                        Iter(gr.children_map[current].set, o), 1, st1))
            ELSE FindPathLoop(gr, o, from, to, st1)

\* DirectedGraph::find_path
find_path(gr, o, from_label, to_label) ==
    LET f == get_internal(gr, from_label)
        t == get_internal(gr, to_label)
    IN IF ~f.ok THEN [ok |-> FALSE, err |-> f.err]
       ELSE IF ~t.ok THEN [ok |-> FALSE, err |-> t.err]
       ELSE IF f.sym = t.sym THEN [ok |-> TRUE, path |-> resolve(gr, <<f.sym>>)]
       ELSE LET st == FindPathLoop(gr, o, f.sym, t.sym,
                        [queue |-> <<f.sym>>, visited |-> {f.sym},
                         parents |-> <<>>, path_buf |-> <<>>, done |-> FALSE])
            IN [ok |-> TRUE, path |-> resolve(gr, st.path_buf)]

\* Iterator::skip(1) on the drained path_buf.
Skip1(s) == IF s = <<>> THEN <<>> ELSE Tail(s)

RECURSIVE OneToManyParents(_, _, _, _, _, _)
\* find_path_one_to_many: "for &parent in parents.iter()".  st.found is set
\* by the "continue 'to" that follows a completed path.
OneToManyParents(from, to, current, ps, i, st) ==
    IF i > Len(ps) THEN st
    ELSE IF ps[i] \in st.visited
         THEN OneToManyParents(from, to, current, ps, i + 1, st)
         ELSE LET st1 == [st EXCEPT !.visited = @ \cup {ps[i]},
                                    !.path = Append(@, <<current, ps[i]>>)]
              IN IF ps[i] = from
                 THEN LET path_buf == construct_path(st1.path, from, to, <<>>)
                      IN [st1 EXCEPT !.path_cache = (to :> path_buf) @@ @,
                                     !.paths = Append(@, path_buf),
                                     !.found = TRUE]
                 ELSE OneToManyParents(from, to, current, ps, i + 1,
                         [st1 EXCEPT !.queue = push_back(@, ps[i])])

\* The search that found nothing leaves no entry for its target.
NothingPushed(paths) == paths

\* "paths.push(vec![])" after a search that emptied the queue
PushEmptyPath(paths) == Append(paths, <<>>)

RECURSIVE OneToManySearch(_, _, _, _, _)
\* find_path_one_to_many: "while let Some(current) = queue.pop_front()", and
\* the paths.push(vec![]) that follows a search that found nothing.
\* path_cache is keyed by (from, node); from is the same for the whole call,
\* so the model keys it by node.
OneToManySearch(gr, o, from, to, st) ==
    IF st.found THEN st
    ELSE IF st.queue = <<>> THEN [st EXCEPT !.paths = PushEmptyPath(@)]
    ELSE LET current == Head(st.queue)
             st1 == [st EXCEPT !.queue = Tail(@)]
         IN IF current \in DOMAIN st1.path_cache
            THEN LET path_buf == construct_path(st1.path, current, to, <<>>)
                     path_buf2 == st1.path_cache[current] \o Skip1(path_buf)
                 IN [st1 EXCEPT !.path_cache = (to :> path_buf2) @@ @,
                                !.paths = Append(@, path_buf2),
                                !.found = TRUE]
            ELSE IF is_initialized(gr.parent_map[current])
            THEN OneToManySearch(gr, o, from, to,
                    OneToManyParents(from, to, current,
                        Iter(gr.parent_map[current].set, o), 1, st1))
            ELSE OneToManySearch(gr, o, from, to, st1)

RECURSIVE OneToManyTargets(_, _, _, _, _, _)
\* find_path_one_to_many: "'to: for to in to".  acc holds paths and
\* path_cache, which live across the targets of one call.
OneToManyTargets(gr, o, from, targets, i, acc) ==
    IF i > Len(targets) THEN [ok |-> TRUE, paths |-> acc.paths]
    ELSE LET t == get_internal(gr, targets[i])
         IN IF ~t.ok THEN [ok |-> FALSE, err |-> t.err]
            ELSE IF from = t.sym
            THEN OneToManyTargets(gr, o, from, targets, i + 1,
                    [paths |-> Append(acc.paths, <<from>>),
                     path_cache |-> (t.sym :> <<from>>) @@ acc.path_cache])
            ELSE LET st == OneToManySearch(gr, o, from, t.sym,
                              [queue |-> <<t.sym>>, visited |-> {t.sym},
                               path |-> <<>>, found |-> FALSE,
                               paths |-> acc.paths,
                               path_cache |-> acc.path_cache])
                 IN OneToManyTargets(gr, o, from, targets, i + 1,
                        [paths |-> st.paths, path_cache |-> st.path_cache])

\* DirectedGraph::find_path_one_to_many
find_path_one_to_many(gr, o, from_label, targets) ==
    LET f == get_internal(gr, from_label)
    IN IF ~f.ok THEN [ok |-> FALSE, err |-> f.err]
       ELSE LET r == OneToManyTargets(gr, o, f.sym, targets, 1,
                        [paths |-> <<>>, path_cache |-> <<>>])
            IN IF ~r.ok THEN r
               ELSE [ok |-> TRUE,
                     paths |-> [k \in 1..Len(r.paths) |-> resolve(gr, r.paths[k])]]

\* The values collected as a set: a value that several ids share is pushed
\* once.
get_values_deduplicated(ids, map, out, o) ==
    out \o Iter(UNION {map[ids[i]].set :
                    i \in {k \in 1..Len(ids) : contains_key(map, ids[k])}}, o)

RECURSIVE get_values_on_rel_map(_, _, _, _)
\* get_values_on_rel_map(ids, map, out): for every id that has a populated
\* slot, every value of its set is pushed to out.
get_values_on_rel_map(ids, map, out, o) ==
    IF ids = <<>> THEN out
    ELSE get_values_on_rel_map(Tail(ids), map,
            IF contains_key(map, Head(ids))
            THEN out \o Iter(map[Head(ids)].set, o) ELSE out,
            o)

\* DirectedGraph::children_u32
children_u32(gr, o, ids, out) == get_values_on_rel_map(ids, gr.children_map, out, o)

\* DirectedGraph::parents_u32
parents_u32(gr, o, ids, out) == get_values_on_rel_map(ids, gr.parent_map, out, o)

\* s[a..=b], positions counted from 1
Slice(s, a, b) == SubSeq(s, a, b)

RECURSIVE SplitOn(_, _, _)
\* slice::split: the pieces of s between the elements equal to sep (empty
\* pieces included); cur is the piece being read.
SplitOn(s, sep, cur) ==
    IF s = <<>> THEN <<cur>>
    ELSE IF Head(s) = sep THEN <<cur>> \o SplitOn(Tail(s), sep, <<>>)
    ELSE SplitOn(Tail(s), sep, Append(cur, Head(s)))

\* .split(|&n| n == sep).filter(|p| !p.is_empty())
SplitPaths(s, sep) == SelectSeq(SplitOn(s, sep, <<>>), LAMBDA p : p # <<>>)

\* The test against every prefix stored in path_buf instead of the one
\* being extended.
InWholeBuffer(path_buf, starti, endi, child) == child \in Range(path_buf)

\* find_all_paths: path_buf[starti..=endi].contains(&child)
PrefixContains(path_buf, starti, endi, child) ==
    child \in Range(Slice(path_buf, starti, endi))

RECURSIVE AllPathsChildren(_, _, _, _, _)
\* find_all_paths: "for child in children.drain(..)"
AllPathsChildren(starti, endi, cs, i, st) ==
    IF i > Len(cs) THEN st
    ELSE IF PrefixContains(st.path_buf, starti, endi, cs[i])
         THEN AllPathsChildren(starti, endi, cs, i + 1, st)
         ELSE LET start == Len(st.path_buf) + 1
                  buf == Append(st.path_buf \o Slice(st.path_buf, starti, endi), cs[i])
              IN AllPathsChildren(starti, endi, cs, i + 1,
                     [st EXCEPT !.path_buf = buf,
                                !.queue = push_back(@, <<start, Len(buf)>>)])

RECURSIVE AllPathsLoop(_, _, _, _)
\* find_all_paths: "while let Some((starti, endi)) = queue.pop_front()"
AllPathsLoop(gr, o, to, st) ==
    IF st.queue = <<>> THEN st
    ELSE LET starti == Head(st.queue)[1]
             endi == Head(st.queue)[2]
             last == st.path_buf[endi]
             st1 == [st EXCEPT !.queue = Tail(@)]
         IN IF last = to
            THEN AllPathsLoop(gr, o, to,
                    [st1 EXCEPT !.all_paths =
                        Append(@ \o Slice(st.path_buf, starti, endi), RESERVED)])
            ELSE AllPathsLoop(gr, o, to,
                    AllPathsChildren(starti, endi,
                        children_u32(gr, o, <<last>>, <<>>), 1, st1))

\* DirectedGraph::find_all_paths
find_all_paths(gr, o, from_label, to_label) ==
    LET f == get_internal(gr, from_label)
        t == get_internal(gr, to_label)
    IN IF ~f.ok THEN [ok |-> FALSE, err |-> f.err]
       ELSE IF ~t.ok THEN [ok |-> FALSE, err |-> t.err]
       ELSE LET st == AllPathsLoop(gr, o, t.sym,
                        [path_buf |-> <<f.sym>>, queue |-> <<<<1, 1>>>>,
                         all_paths |-> <<>>])
                ps == SplitPaths(st.all_paths, RESERVED)
            IN [ok |-> TRUE, paths |-> [k \in 1..Len(ps) |-> resolve(gr, ps[k])]]

\* ------------------------------------------------------- topological sort
\* The match without its guard: a parent whose slot is populated is taken to
\* have children although its set has been emptied.
SlotIsPopulated(ls) == is_initialized(ls)

\* topological_sort: "LazySet::Initialized(children) if !children.is_empty()"
StillHasChildren(ls) == is_initialized(ls) /\ ls.set # {}

RECURSIVE TopoParents(_, _, _, _)
\* topological_sort: "for parent in parents.drain(..)" for the node popped.
TopoParents(node, ps, i, st) ==
    IF i > Len(ps) THEN st
    ELSE LET parent == ps[i]
             cm == IF is_initialized(st.children_map[parent])
                   THEN [st.children_map EXCEPT ![parent].set = @ \ {node}]
                   ELSE st.children_map
             removed == is_initialized(st.parent_map[node])
                        /\ parent \in st.parent_map[node].set
             pm == IF is_initialized(st.parent_map[node])
                   THEN [st.parent_map EXCEPT ![node].set = @ \ {parent}]
                   ELSE st.parent_map
         IN TopoParents(node, ps, i + 1,
                [st EXCEPT !.children_map = cm,
                           !.parent_map = pm,
                           !.n_edges = IF removed THEN @ - 1 ELSE @,
                           !.no_deps = IF StillHasChildren(cm[parent]) THEN @
                                       ELSE Append(@, parent)])

RECURSIVE TopoLoop(_, _)
\* topological_sort: "while let Some(node) = no_deps.pop()" on the working
\* copy of the graph.
TopoLoop(o, st) ==
    IF st.no_deps = <<>> THEN st
    ELSE LET node == st.no_deps[Len(st.no_deps)]
             st1 == [st EXCEPT !.no_deps = SubSeq(@, 1, Len(@) - 1),
                               !.res = Append(@, node)]
         IN TopoLoop(o,
                TopoParents(node,
                    get_values_on_rel_map(<<node>>, st1.parent_map, <<>>, o), 1, st1))

\* topological_sort(dg): Ok(order) or Err(GraphHasCycle)
topological_sort(gr, o) ==
    LET st == TopoLoop(o, [children_map |-> gr.children_map,
                           parent_map |-> gr.parent_map,
                           n_edges |-> gr.n_edges,
                           res |-> <<>>,
                           no_deps |-> gr.leaves])
    IN IF st.n_edges # 0 THEN [ok |-> FALSE, topological_sort |-> <<>>]
       ELSE [ok |-> TRUE, topological_sort |-> st.res]

\* DirectedAcyclicGraph::build
DagBuild(gr, o) == [built |-> TRUE] @@ topological_sort(gr, o)

\* ---------------------------------------------------- DirectedAcyclicGraph
\* edge_exists(from, to) on symbols
edge_exists(gr, from, to) ==
    from \in DOMAIN gr.children_map /\ to \in gr.children_map[from].set

\* topo_order.iter().position(|id| id == &x), 0 for None
Position(s, x) ==
    IF \E i \in 1..Len(s) : s[i] = x THEN Min({i \in 1..Len(s) : s[i] = x}) ELSE 0

RECURSIVE DagFindPathWalk(_, _, _, _, _, _)
\* DirectedAcyclicGraph::find_path: "for &node_id in
\* &topo_order[goal_index..=start_index]"; the result is the reversed path,
\* or empty when the slice ends before `from` is reached.
DagFindPathWalk(gr, topo, i, last, from, st) ==
    IF i > last THEN <<>>
    ELSE IF edge_exists(gr, topo[i], st.current)
         THEN LET path == Append(st.path, topo[i])
              IN IF topo[i] = from THEN Reverse(path)
                 ELSE DagFindPathWalk(gr, topo, i + 1, last, from,
                         [path |-> path, current |-> topo[i]])
         ELSE DagFindPathWalk(gr, topo, i + 1, last, from, st)

\* DirectedAcyclicGraph::find_path
dag_find_path(gr, topo, from_label, to_label) ==
    LET f == get_internal(gr, from_label)
        t == get_internal(gr, to_label)
    IN IF ~f.ok THEN [ok |-> FALSE, panic |-> FALSE, err |-> f.err]
       ELSE IF ~t.ok THEN [ok |-> FALSE, panic |-> FALSE, err |-> t.err]
       ELSE IF f.sym = t.sym
       THEN [ok |-> TRUE, panic |-> FALSE, path |-> resolve(gr, <<f.sym>>)]
       ELSE LET start_index == Position(topo, f.sym)
                goal_index == Position(topo, t.sym)
            IN IF start_index = 0 \/ goal_index = 0
               THEN [ok |-> FALSE, panic |-> TRUE]
               ELSE IF goal_index > start_index
               THEN [ok |-> TRUE, panic |-> FALSE, path |-> <<>>]
               ELSE [ok |-> TRUE, panic |-> FALSE,
                     path |-> resolve(gr,
                        DagFindPathWalk(gr, topo, goal_index, start_index, f.sym,
                            [path |-> <<t.sym>>, current |-> t.sym]))]

RECURSIVE Dfs(_, _, _, _, _)
RECURSIVE DfsChildren(_, _, _, _, _)
\* DirectedAcyclicGraph::find_all_paths::dfs.  st holds current_path,
\* all_paths and children_buffer, which all calls share.
Dfs(gr, o, current, goal_id, st) ==
    LET st1 == [st EXCEPT !.current_path = Append(@, current)]
        st2 == IF current = goal_id
               THEN [st1 EXCEPT !.all_paths =
                        Append(@ \o st1.current_path, DagPathSeparator)]
               ELSE DfsChildren(gr, o, goal_id, Len(st1.children_buffer),
                        [st1 EXCEPT !.children_buffer =
                            children_u32(gr, o, <<current>>, @)])
    IN [st2 EXCEPT !.current_path = SubSeq(@, 1, Len(@) - 1)]

\* dfs: "while let Some(child) = children_buffer.pop()", left when the
\* buffer is back at the length it had when the call began.
DfsChildren(gr, o, goal_id, children_start_index_local, st) ==
    IF st.children_buffer = <<>> THEN st
    ELSE LET child == st.children_buffer[Len(st.children_buffer)]
             st1 == Dfs(gr, o, child, goal_id,
                        [st EXCEPT !.children_buffer = SubSeq(@, 1, Len(@) - 1)])
         IN IF Len(st1.children_buffer) = children_start_index_local THEN st1
            ELSE DfsChildren(gr, o, goal_id, children_start_index_local, st1)

\* DirectedAcyclicGraph::find_all_paths
dag_find_all_paths(gr, o, from_label, to_label) ==
    LET f == get_internal(gr, from_label)
        t == get_internal(gr, to_label)
    IN IF ~f.ok THEN [ok |-> FALSE, err |-> f.err]
       ELSE IF ~t.ok THEN [ok |-> FALSE, err |-> t.err]
       ELSE LET st == Dfs(gr, o, f.sym, t.sym,
                        [current_path |-> <<>>, all_paths |-> <<>>,
                         children_buffer |-> <<>>])
                ps == SplitPaths(st.all_paths, DagPathSeparator)
            IN [ok |-> TRUE, paths |-> [k \in 1..Len(ps) |-> resolve(gr, ps[k])]]

\* ----------------------------------------------------------------- subset
\* LazySet::or_init on an Empty slot runs std::hint::unreachable_unchecked,
\* which is undefined behaviour.  What a build makes of it: the process is
\* stopped ("abort"); the slot is handled as a populated set and takes the
\* value ("populated"); the write goes astray and the slot stays Empty
\* ("lost").
UnreachableOutcomes == {"abort", "populated", "lost"}

\* x.or_init().insert(v) on any slot, ub being what the undefined behaviour
\* of the Empty case turns out to be.
or_init_insert_any(ls, v, ub) ==
    IF ~is_empty(ls) THEN or_init_insert(ls, v)
    ELSE IF ub = "populated" THEN Initialized({v})
    ELSE ls

\* The pairs (node, child) pushed for the children of node, in set order.
PairsOf(node, cs) == [i \in 1..Len(cs) |-> <<node, cs[i]>>]

\* The match with the Empty arm marking the slot only: the leaf is not
\* recorded in leaves.
SubsetVisitNoLeaf(gr, o, node, st) ==
    LET ls == gr.children_map[node]
    IN IF is_initialized(ls)
       THEN [st EXCEPT !.queue = @ \o PairsOf(node, Iter(ls.set, o))]
       ELSE IF is_empty(ls)
       THEN [st EXCEPT !.children_map[node] = into_empty(@)]
       ELSE st

\* subset_multi_u32: the match on self.children_map.get(node) for a node
\* visited for the first time.
SubsetVisit(gr, o, node, st) ==
    LET ls == gr.children_map[node]
    IN IF is_initialized(ls)
       THEN [st EXCEPT !.queue = @ \o PairsOf(node, Iter(ls.set, o))]
       ELSE IF is_empty(ls)
       THEN [st EXCEPT !.leaves = Append(@, node),
                       !.children_map[node] = into_empty(@)]
       ELSE st

RECURSIVE SubsetQueue(_, _, _, _)
\* subset_multi_u32: "'queue: while let Some((parent, node)) = queue.pop_front()"
SubsetQueue(gr, o, ub, st) ==
    IF st.queue = <<>> \/ st.aborted THEN st
    ELSE LET parent == st.queue[1][1]
             node == st.queue[1][2]
             hit == is_empty(st.children_map[parent]) \/ is_empty(st.parent_map[node])
             st1 == [st EXCEPT
                        !.queue = Tail(@),
                        !.children_map[parent] = or_init_insert_any(@, node, ub),
                        !.parent_map[node] = or_init_insert_any(@, parent, ub),
                        !.n_edges = @ + 1,
                        !.hit = @ \/ hit]
         IN IF hit /\ ub = "abort" THEN [st EXCEPT !.aborted = TRUE, !.hit = TRUE]
            ELSE IF node \in st1.visited THEN SubsetQueue(gr, o, ub, st1)
            ELSE SubsetQueue(gr, o, ub,
                    SubsetVisit(gr, o, node, [st1 EXCEPT !.visited = @ \cup {node}]))

RECURSIVE SubsetSeeds(_, _, _, _, _, _)
\* subset_multi_u32: "for &node in nodes_subset"
SubsetSeeds(gr, o, ub, nodes_subset, i, st) ==
    IF i > Len(nodes_subset) \/ st.aborted THEN st
    ELSE LET node == nodes_subset[i]
         IN IF node \in st.visited
            THEN SubsetSeeds(gr, o, ub, nodes_subset, i + 1, st)
            ELSE LET st1 == [st EXCEPT !.parent_map[node] = into_empty(@),
                                       !.visited = @ \cup {node}]
                     st2 == SubsetQueue(gr, o, ub, SubsetVisit(gr, o, node, st1))
                     st3 == [st2 EXCEPT !.nodes =
                                Append(@ \o initialized_keys(st2.parent_map), node)]
                 IN SubsetSeeds(gr, o, ub, nodes_subset, i + 1, st3)

\* DirectedGraph::subset_multi_u32
subset_multi_u32(gr, o, ub, nodes_subset) ==
    IF nodes_subset = <<>> THEN [aborted |-> FALSE, hit |-> FALSE, graph |-> gr]
    ELSE LET n == ResolverLen(gr.interner)
             st == SubsetSeeds(gr, o, ub, nodes_subset, 1,
                      [children_map |-> NodeMapNew(n), parent_map |-> NodeMapNew(n),
                       queue |-> <<>>, n_edges |-> 0, nodes |-> <<>>,
                       leaves |-> <<>>, visited |-> {},
                       aborted |-> FALSE, hit |-> FALSE])
             nodes == SortDedup(st.nodes)
         IN IF st.aborted THEN [aborted |-> TRUE, hit |-> TRUE]
            ELSE [aborted |-> FALSE, hit |-> st.hit,
                  graph |-> [interner |-> gr.interner,
                             nodes |-> nodes,
                             leaves |-> SortDedup(st.leaves),
                             roots |-> SelectSeq(nodes,
                                          LAMBDA x : is_empty(st.parent_map[x])),
                             n_edges |-> st.n_edges,
                             parent_map |-> st.parent_map,
                             children_map |-> st.children_map]]

\* DirectedGraph::subset
subset(gr, o, ub, node_label) ==
    LET f == get_internal(gr, node_label)
    IN IF ~f.ok THEN [ok |-> FALSE, err |-> f.err]
       ELSE [ok |-> TRUE] @@ subset_multi_u32(gr, o, ub, <<f.sym>>)

\* ------------------------------------------------------ subset with limit
\* The triples (1, node, child) pushed for the children of a seed.
TriplesOf(level, node, cs) == [i \in 1..Len(cs) |-> <<level, node, cs[i]>>]

\* subset_multi_u32_with_limit: the match on self.children_map.get(node) for
\* a seed.
LimitSeedVisit(gr, o, node, st) ==
    LET ls == gr.children_map[node]
    IN IF is_initialized(ls)
       THEN [st EXCEPT !.queue = @ \o TriplesOf(1, node, Iter(ls.set, o))]
       ELSE IF is_empty(ls)
       THEN [st EXCEPT !.children_map[node] = into_empty(@),
                       !.leaves = Append(@, node)]
       ELSE st

\* "LazySet::Initialized(_) if level >= limit"
AtLimit(level, limit) == level >= limit

\* subset_multi_u32_with_limit: the match on self.children_map.get(node) for
\* a node dequeued at `level` and visited for the first time.
LimitVisit(gr, o, level, limit, node, st) ==
    LET ls == gr.children_map[node]
    IN IF is_empty(ls) \/ (is_initialized(ls) /\ AtLimit(level, limit))
       THEN [st EXCEPT !.leaves = Append(@, node),
                       !.children_map[node] = into_empty(@)]
       ELSE IF is_initialized(ls)
       THEN [st EXCEPT !.queue = @ \o TriplesOf(level + 1, node, Iter(ls.set, o))]
       ELSE st

RECURSIVE LimitQueue(_, _, _, _, _)
\* subset_multi_u32_with_limit:
\* "'queue: while let Some((level, parent, node)) = queue.pop_front()"
LimitQueue(gr, o, ub, limit, st) ==
    IF st.queue = <<>> \/ st.aborted THEN st
    ELSE LET level == st.queue[1][1]
             parent == st.queue[1][2]
             node == st.queue[1][3]
             hit == is_empty(st.children_map[parent]) \/ is_empty(st.parent_map[node])
             st1 == [st EXCEPT
                        !.queue = Tail(@),
                        !.children_map[parent] = or_init_insert_any(@, node, ub),
                        !.parent_map[node] = or_init_insert_any(@, parent, ub),
                        !.n_edges = @ + 1,
                        !.hit = @ \/ hit]
         IN IF hit /\ ub = "abort" THEN [st EXCEPT !.aborted = TRUE, !.hit = TRUE]
            ELSE IF node \in st1.visited THEN LimitQueue(gr, o, ub, limit, st1)
            ELSE LimitQueue(gr, o, ub, limit,
                    LimitVisit(gr, o, level, limit, node,
                        [st1 EXCEPT !.visited = @ \cup {node}]))

RECURSIVE LimitSeeds(_, _, _, _, _, _, _)
\* subset_multi_u32_with_limit: "for &node in nodes_subset"
LimitSeeds(gr, o, ub, limit, nodes_subset, i, st) ==
    IF i > Len(nodes_subset) \/ st.aborted THEN st
    ELSE LET node == nodes_subset[i]
         IN IF node \in st.visited
            THEN LimitSeeds(gr, o, ub, limit, nodes_subset, i + 1, st)
            ELSE LET st1 == [st EXCEPT !.parent_map[node] = into_empty(@),
                                       !.visited = @ \cup {node}]
                     st2 == LimitQueue(gr, o, ub, limit,
                                LimitSeedVisit(gr, o, node, st1))
                     st3 == [st2 EXCEPT !.nodes =
                                Append(@ \o initialized_keys(st2.parent_map), node)]
                 IN LimitSeeds(gr, o, ub, limit, nodes_subset, i + 1, st3)

\* DirectedGraph::subset_multi_u32_with_limit
subset_multi_u32_with_limit(gr, o, ub, nodes_subset, limit) ==
    IF nodes_subset = <<>> THEN [aborted |-> FALSE, hit |-> FALSE, graph |-> gr]
    ELSE LET n == ResolverLen(gr.interner)
             st == LimitSeeds(gr, o, ub, limit, nodes_subset, 1,
                      [children_map |-> NodeMapNew(n), parent_map |-> NodeMapNew(n),
                       queue |-> <<>>, n_edges |-> 0, nodes |-> <<>>,
                       leaves |-> <<>>, visited |-> {},
                       aborted |-> FALSE, hit |-> FALSE])
             nodes == SortDedup(st.nodes)
         IN IF st.aborted THEN [aborted |-> TRUE, hit |-> TRUE]
            ELSE [aborted |-> FALSE, hit |-> st.hit,
                  graph |-> [interner |-> gr.interner,
                             nodes |-> nodes,
                             leaves |-> SortDedup(st.leaves),
                             roots |-> SelectSeq(nodes,
                                          LAMBDA x : is_empty(st.parent_map[x])),
                             n_edges |-> st.n_edges,
                             parent_map |-> st.parent_map,
                             children_map |-> st.children_map]]

\* DirectedGraph::subset_with_limit
subset_with_limit(gr, o, ub, node_label, limit) ==
    LET f == get_internal(gr, node_label)
    IN IF ~f.ok THEN [ok |-> FALSE, err |-> f.err]
       ELSE [ok |-> TRUE] @@ subset_multi_u32_with_limit(gr, o, ub, <<f.sym>>, limit)

\* ----------------------------------------------------------- subset_multi
RECURSIVE get_internal_mul(_, _, _)
\* DirectedGraph::get_internal_mul: the symbols of the labels pushed to buf,
\* or the NodeNotExist of the first label that has none.
get_internal_mul(gr, nodes, buf) ==
    IF nodes = <<>> THEN [ok |-> TRUE, buf |-> buf]
    ELSE LET r == get_internal(gr, Head(nodes))
         IN IF ~r.ok THEN [ok |-> FALSE, err |-> r.err]
            ELSE get_internal_mul(gr, Tail(nodes), Append(buf, r.sym))

\* DirectedGraph::subset_multi
subset_multi(gr, o, ub, node_labels) ==
    LET r == get_internal_mul(gr, node_labels, <<>>)
    IN IF ~r.ok THEN r
       ELSE [ok |-> TRUE] @@ subset_multi_u32(gr, o, ub, r.buf)

\* DirectedGraph::subset_multi_with_limit
subset_multi_with_limit(gr, o, ub, node_labels, limit) ==
    LET r == get_internal_mul(gr, node_labels, <<>>)
    IN IF ~r.ok THEN r
       ELSE [ok |-> TRUE] @@ subset_multi_u32_with_limit(gr, o, ub, r.buf, limit)

\* NonZeroUsize::new(k).unwrap(), the way the limit is made from a number:
\* new(0) is None and the unwrap panics.
NonZeroUsizeNewUnwrap(k) ==
    IF k = 0 THEN [ok |-> FALSE, panic |-> TRUE] ELSE [ok |-> TRUE, limit |-> k]

\* ------------------------------------------------------------ batch lookups
\* DirectedGraph::children
dg_children(gr, o, nodes) ==
    LET r == get_internal_mul(gr, nodes, <<>>)
    IN IF ~r.ok THEN r
       ELSE [ok |-> TRUE, nodes |-> resolve(gr, children_u32(gr, o, r.buf, <<>>))]

\* DirectedGraph::parents
dg_parents(gr, o, nodes) ==
    LET r == get_internal_mul(gr, nodes, <<>>)
    IN IF ~r.ok THEN r
       ELSE [ok |-> TRUE, nodes |-> resolve(gr, parents_u32(gr, o, r.buf, <<>>))]

\* The mapped iterator collected without regard to errors: the position of
\* an unknown label is filled with FALSE.
CollectIgnoringErr(gr, map, nodes, acc) ==
    [ok |-> TRUE,
     flags |-> acc \o [i \in 1..Len(nodes) |->
                  LET r == get_internal(gr, nodes[i])
                  IN r.ok /\ contains_key(map, r.sym)]]

RECURSIVE CollectContains(_, _, _, _)
\* nodes.into_iter().map(|x| self.get_internal(x).map(|id| map.contains_key(id)))
\* .collect() into a Result<Vec<bool>>: the first Err ends the collection
\* and is the result.
CollectContains(gr, map, nodes, acc) ==
    IF nodes = <<>> THEN [ok |-> TRUE, flags |-> acc]
    ELSE LET r == get_internal(gr, Head(nodes))
         IN IF ~r.ok THEN [ok |-> FALSE, err |-> r.err]
            ELSE CollectContains(gr, map, Tail(nodes),
                    Append(acc, contains_key(map, r.sym)))

\* DirectedGraph::has_parents
has_parents(gr, nodes) == CollectContains(gr, gr.parent_map, nodes, <<>>)

\* DirectedGraph::has_children
has_children(gr, nodes) == CollectContains(gr, gr.children_map, nodes, <<>>)

\* ------------------------------------------------------- get_leaves_under
\* get_roots_over_u32's match, which differs from the one below only in the
\* map it reads: the parents are followed and a node with an Empty parent
\* slot is emitted.
RootsVisit(gr, o, node, st) ==
    LET ls == gr.parent_map[node]
    IN IF is_initialized(ls) THEN [st EXCEPT !.to_visit = @ \o Iter(ls.set, o)]
       ELSE IF is_empty(ls) THEN [st EXCEPT !.leaves = Append(@, node)]
       ELSE st

\* get_leaves_under_u32: the match on self.children_map.get(node) for a node
\* popped for the first time.
LeavesVisit(gr, o, node, st) ==
    LET ls == gr.children_map[node]
    IN IF is_initialized(ls) THEN [st EXCEPT !.to_visit = @ \o Iter(ls.set, o)]
       ELSE IF is_empty(ls) THEN [st EXCEPT !.leaves = Append(@, node)]
       ELSE st

RECURSIVE get_leaves_under_u32(_, _, _)
\* get_leaves_under_u32: "while let Some(node) = to_visit.pop()"
get_leaves_under_u32(gr, o, st) ==
    IF st.to_visit = <<>> THEN st
    ELSE LET node == st.to_visit[Len(st.to_visit)]
             st1 == [st EXCEPT !.to_visit = SubSeq(@, 1, Len(@) - 1)]
         IN IF node \in st.visited THEN get_leaves_under_u32(gr, o, st1)
            ELSE get_leaves_under_u32(gr, o,
                    LeavesVisit(gr, o, node, [st1 EXCEPT !.visited = @ \cup {node}]))

\* DirectedGraph::get_leaves_under
get_leaves_under(gr, o, nodes) ==
    LET r == get_internal_mul(gr, nodes, <<>>)
    IN IF ~r.ok THEN r
       ELSE [ok |-> TRUE,
             nodes |-> resolve(gr,
                get_leaves_under_u32(gr, o,
                    [to_visit |-> r.buf, leaves |-> <<>>, visited |-> {}]).leaves)]

\* DirectedGraph::get_all_leaves
get_all_leaves(gr) == resolve(gr, gr.leaves)

\* DirectedGraph::get_all_roots
get_all_roots(gr) == resolve(gr, gr.roots)

\* DirectedGraph::nodes
dg_nodes(gr) == resolve(gr, gr.nodes)

\* DirectedAcyclicGraph::subset: the subset of the inner graph, handed to
\* DirectedAcyclicGraph::build, whose failure is a panic
\* ("A subset of a DAG has no cycles").
dag_subset(gr, o, ub, node_label) ==
    LET r == subset(gr, o, ub, node_label)
    IN IF ~r.ok \/ r.aborted THEN r
       ELSE LET b == DagBuild(r.graph, o)
            IN IF b.ok THEN r @@ [topological_sort |-> b.topological_sort,
                                  panic |-> FALSE]
               ELSE [ok |-> FALSE, panic |-> TRUE]

\* --------------------------------------------------- least_common_parents
\* The test with "all" in the place of "any": a child is dropped only when
\* every parent of it is selected.
SomeParentNotInSelection(ps, selected_buf_set) ==
    \E k \in 1..Len(ps) : ps[k] \notin selected_buf_set

\* "parents.drain(..).any(|parent| selected_buf_set.contains(&parent)).not()"
parent_not_in_selection(ps, selected_buf_set) ==
    ~(\E k \in 1..Len(ps) : ps[k] \in selected_buf_set)

RECURSIVE LcpEach(_, _, _, _, _, _, _)
\* least_common_parents: "selected_buf.iter().for_each(|&child| ...)"; the
\* drain leaves the parents buffer empty for the next child.
LcpEach(gr, o, selected_buf, selected_buf_set, i, parents_buf, lcp) ==
    IF i > Len(selected_buf) THEN lcp
    ELSE LET child == selected_buf[i]
             ps == parents_u32(gr, o, <<child>>, parents_buf)
         IN LcpEach(gr, o, selected_buf, selected_buf_set, i + 1, <<>>,
                IF parent_not_in_selection(ps, selected_buf_set)
                THEN Append(lcp, child) ELSE lcp)

\* DirectedGraph::least_common_parents
least_common_parents(gr, o, selected) ==
    LET r == get_internal_mul(gr, selected, <<>>)
    IN IF ~r.ok THEN r
       ELSE [ok |-> TRUE,
             nodes |-> resolve(gr, SortDedup(
                          LcpEach(gr, o, r.buf, Range(r.buf), 1, <<>>, <<>>)))]

\* ---------------------------------------------------------- InternalBufs
\* InternalBufs::default()
InternalBufsDefault ==
    [u32x1_vec_0 |-> <<>>, u32x1_vec_1 |-> <<>>, u32x1_vec_2 |-> <<>>,
     u32x2_vec_0 |-> <<>>, u32x1_queue_0 |-> <<>>, u32x1_set_0 |-> {},
     usizex2_queue_0 |-> <<>>]

\* The buffer handed out as the last call left it.
left_as_it_was(ptr) == ptr

\* impl_buf: "ptr.clear()" on a Vec or a VecDeque
clear_vec(ptr) == <<>>

\* impl_buf: "ptr.clear()" on the FxHashSet
clear_set(ptr) == {}

\* impl_buf!(u32x1_vec_0, Vec<Sym>) and the other accessors: the buffer of
\* the graph, cleared.
u32x1_vec_0(buf) == clear_vec(buf.u32x1_vec_0)

u32x1_vec_1(buf) == clear_vec(buf.u32x1_vec_1)

u32x1_vec_2(buf) == clear_vec(buf.u32x1_vec_2)

u32x2_vec_0(buf) == clear_vec(buf.u32x2_vec_0)

u32x1_queue_0(buf) == clear_vec(buf.u32x1_queue_0)

u32x1_set_0(buf) == clear_set(buf.u32x1_set_0)

RECURSIVE PushedBeforeErr(_, _, _)
\* get_internal_mul: what buf holds when the call returns, all the symbols
\* or those pushed before the "?" returned the error.
PushedBeforeErr(gr, nodes, buf) ==
    IF nodes = <<>> THEN buf
    ELSE LET r == get_internal(gr, Head(nodes))
         IN IF ~r.ok THEN buf
            ELSE PushedBeforeErr(gr, Tail(nodes), Append(buf, r.sym))

\* DirectedGraph::least_common_parents on a graph whose buffers hold buf:
\* the result and the buffers it leaves.
least_common_parents_on(gr, o, buf, selected) ==
    LET selected_buf == u32x1_vec_0(buf)
        selected_buf_set == u32x1_set_0(buf)
        parents_buf == u32x1_vec_1(buf)
        lcp == u32x1_vec_2(buf)
        r == get_internal_mul(gr, selected, selected_buf)
    IN IF ~r.ok
       THEN [res |-> r,
             buf |-> [buf EXCEPT !.u32x1_vec_0 = PushedBeforeErr(gr, selected, selected_buf),
                                 !.u32x1_set_0 = selected_buf_set,
                                 !.u32x1_vec_1 = parents_buf,
                                 !.u32x1_vec_2 = lcp]]
       ELSE LET set == selected_buf_set \cup Range(r.buf)
                out == SortDedup(LcpEach(gr, o, r.buf, set, 1, parents_buf, lcp))
            IN [res |-> [ok |-> TRUE, nodes |-> resolve(gr, out)],
                buf |-> [buf EXCEPT !.u32x1_vec_0 = r.buf,
                                    !.u32x1_set_0 = set,
                                    !.u32x1_vec_1 = IF r.buf = <<>> THEN parents_buf ELSE <<>>,
                                    !.u32x1_vec_2 = out]]

\* DirectedGraph::find_path on a graph whose buffers hold buf; the returns
\* that come before the buffers are taken leave them as they are.
find_path_on(gr, o, buf, from_label, to_label) ==
    LET f == get_internal(gr, from_label)
        t == get_internal(gr, to_label)
    IN IF ~f.ok THEN [res |-> [ok |-> FALSE, err |-> f.err], buf |-> buf]
       ELSE IF ~t.ok THEN [res |-> [ok |-> FALSE, err |-> t.err], buf |-> buf]
       ELSE IF f.sym = t.sym
       THEN [res |-> [ok |-> TRUE, path |-> resolve(gr, <<f.sym>>)], buf |-> buf]
       ELSE LET st == FindPathLoop(gr, o, f.sym, t.sym,
                        [queue |-> push_back(u32x1_queue_0(buf), f.sym),
                         visited |-> u32x1_set_0(buf) \cup {f.sym},
                         parents |-> u32x2_vec_0(buf),
                         path_buf |-> u32x1_vec_0(buf), done |-> FALSE])
            IN [res |-> [ok |-> TRUE, path |-> resolve(gr, st.path_buf)],
                buf |-> [buf EXCEPT !.u32x1_queue_0 = st.queue,
                                    !.u32x1_set_0 = st.visited,
                                    !.u32x2_vec_0 = st.parents,
                                    !.u32x1_vec_0 = st.path_buf]]

\* ------------------------------------------------------------------ state
VARIABLES
    parents,    \* DirectedGraphBuilder.parents
    children,   \* DirectedGraphBuilder.children
    map_strs,   \* InternerBuilder.map_strs
    count,      \* InternerBuilder.count
    phase,      \* "building", "directed", "acyclic" or "cyclic"
    g,          \* the DirectedGraph built
    ord,        \* the iteration order of the graph's hash sets
    dag,        \* the outcome of DirectedAcyclicGraph::build
    q           \* the call in progress and what it returned

vars == <<parents, children, map_strs, count, phase, g, ord, dag, q>>

NoGraph == [nodes |-> <<>>]
NoDag == [built |-> FALSE]
NoQuery == [op |-> "none"]

Init ==
    /\ parents = <<>>
    /\ children = <<>>
    /\ map_strs = <<>>
    /\ count = 0
    /\ phase = "building"
    /\ g = NoGraph
    /\ ord = "asc"
    /\ dag = NoDag
    /\ q = NoQuery

\* Labels are names only: a label not seen before is taken to be the
\* lowest-numbered unused one.
UsableLabels(map) ==
    DOMAIN map \cup
        (IF Labels \ DOMAIN map = {} THEN {} ELSE {Min(Labels \ DOMAIN map)})

\* DirectedGraphBuilder::add_edge
AddEdge ==
    /\ phase = "building"
    /\ Len(parents) < MaxEdges
    /\ \E from \in UsableLabels(map_strs) :
         LET r1 == get_or_intern(map_strs, count, from)
         IN \E to \in UsableLabels(r1.map) :
              LET r2 == get_or_intern(r1.map, r1.count, to)
              IN /\ parents' = Append(parents, r1.sym)
                 /\ children' = Append(children, r2.sym)
                 /\ map_strs' = r2.map
                 /\ count' = r2.count
    /\ UNCHANGED <<phase, g, ord, dag, q>>

\* DirectedGraphBuilder::build_directed
BuildDirected ==
    /\ phase = "building"
    /\ \E o \in OrderKinds : ord' = o
    /\ g' = build_directed(parents, children, map_strs)
    /\ phase' = "directed"
    \* build_directed(self) consumes the builder
    /\ parents' = <<>>
    /\ children' = <<>>
    /\ map_strs' = <<>>
    /\ count' = 0
    /\ UNCHANGED <<dag, q>>

\* DirectedGraphBuilder::build_acyclic: build_directed, then
\* DirectedAcyclicGraph::build, which keeps the graph only if it has no cycle.
BuildAcyclic ==
    /\ phase = "building"
    /\ \E o \in OrderKinds :
         LET dg == build_directed(parents, children, map_strs)
             res == DagBuild(dg, o)
         IN /\ ord' = o
            /\ dag' = res
            /\ g' = IF res.ok THEN dg ELSE NoGraph
            /\ phase' = IF res.ok THEN "acyclic" ELSE "cyclic"
    /\ parents' = <<>>
    /\ children' = <<>>
    /\ map_strs' = <<>>
    /\ count' = 0
    /\ UNCHANGED q

\* A call is made when no other call is in progress on the graph.
Idle == phase \in {"directed", "acyclic"} /\ q = NoQuery

\* The caller drops the result of the call.
Release ==
    /\ q # NoQuery
    /\ q' = NoQuery
    /\ UNCHANGED <<parents, children, map_strs, count, phase, g, ord, dag>>

\* DirectedGraph::find_path(from, to)
FindPath ==
    /\ Idle
    /\ \E from \in Labels, to \in Labels :
         q' = [op |-> "find_path", from |-> from, to |-> to,
               res |-> find_path(g, ord, from, to)]
    /\ UNCHANGED <<parents, children, map_strs, count, phase, g, ord, dag>>

\* The label lists a caller may hand to a batch operation.
LabelLists(n) == UNION {[1..k -> Labels] : k \in 0..n}

\* DirectedGraph::find_path_one_to_many(from, to)
FindPathOneToMany ==
    /\ Idle
    /\ \E from \in Labels, targets \in LabelLists(MaxTargets) :
         q' = [op |-> "find_path_one_to_many", from |-> from, to |-> targets,
               res |-> find_path_one_to_many(g, ord, from, targets)]
    /\ UNCHANGED <<parents, children, map_strs, count, phase, g, ord, dag>>

\* DirectedGraph::find_all_paths(from, to)
FindAllPaths ==
    /\ Idle
    /\ \E from \in Labels, to \in Labels :
         q' = [op |-> "find_all_paths", from |-> from, to |-> to,
               res |-> find_all_paths(g, ord, from, to)]
    /\ UNCHANGED <<parents, children, map_strs, count, phase, g, ord, dag>>

\* DirectedAcyclicGraph::find_path(from, to)
DagFindPath ==
    /\ Idle /\ phase = "acyclic"
    /\ \E from \in Labels, to \in Labels :
         q' = [op |-> "dag_find_path", from |-> from, to |-> to,
               res |-> dag_find_path(g, dag.topological_sort, from, to)]
    /\ UNCHANGED <<parents, children, map_strs, count, phase, g, ord, dag>>

\* DirectedAcyclicGraph::find_all_paths(from, to)
DagFindAllPaths ==
    /\ Idle /\ phase = "acyclic"
    /\ \E from \in Labels, to \in Labels :
         q' = [op |-> "dag_find_all_paths", from |-> from, to |-> to,
               res |-> dag_find_all_paths(g, ord, from, to)]
    /\ UNCHANGED <<parents, children, map_strs, count, phase, g, ord, dag>>

\* DirectedGraph::subset(node)
Subset ==
    /\ Idle
    /\ \E node \in Labels, ub \in UnreachableOutcomes :
         q' = [op |-> "subset", from |-> node, to |-> node,
               res |-> subset(g, ord, ub, node)]
    /\ UNCHANGED <<parents, children, map_strs, count, phase, g, ord, dag>>

\* DirectedGraph::subset_with_limit(node, limit); limit is a NonZeroUsize
SubsetWithLimit ==
    /\ Idle
    /\ \E node \in Labels, limit \in 1..MaxLimit, ub \in UnreachableOutcomes :
         q' = [op |-> "subset_with_limit", from |-> node, to |-> node,
               limit |-> limit,
               res |-> subset_with_limit(g, ord, ub, node, limit)]
    /\ UNCHANGED <<parents, children, map_strs, count, phase, g, ord, dag>>

\* DirectedGraph::subset_multi(nodes)
SubsetMulti ==
    /\ Idle
    /\ \E seeds \in LabelLists(MaxSeeds), ub \in UnreachableOutcomes :
         q' = [op |-> "subset_multi", from |-> seeds, to |-> seeds,
               res |-> subset_multi(g, ord, ub, seeds)]
    /\ UNCHANGED <<parents, children, map_strs, count, phase, g, ord, dag>>

\* DirectedGraph::subset_multi_with_limit(nodes, limit)
SubsetMultiWithLimit ==
    /\ Idle
    /\ \E seeds \in LabelLists(MaxSeeds), limit \in 1..MaxLimit,
          ub \in UnreachableOutcomes :
         q' = [op |-> "subset_multi_with_limit", from |-> seeds, to |-> seeds,
               limit |-> limit,
               res |-> subset_multi_with_limit(g, ord, ub, seeds, limit)]
    /\ UNCHANGED <<parents, children, map_strs, count, phase, g, ord, dag>>

\* DirectedGraph::subset(node) called on the graph a subset call returned
SubsetAgain ==
    /\ phase \in {"directed", "acyclic"}
    /\ q.op = "subset" /\ q.res.ok /\ ~q.res.aborted
    /\ \E o \in OrderKinds, ub \in UnreachableOutcomes :
         q' = [op |-> "subset_subset", from |-> q.from, to |-> q.to,
               first |-> q.res.graph,
               res |-> subset(q.res.graph, o, ub, q.from)]
    /\ UNCHANGED <<parents, children, map_strs, count, phase, g, ord, dag>>

\* subset_with_limit(node, NonZeroUsize::new(k).unwrap())
SubsetWithLimitOf ==
    /\ Idle
    /\ \E node \in Labels, k \in 0..MaxLimit, ub \in UnreachableOutcomes :
         LET l == NonZeroUsizeNewUnwrap(k)
         IN q' = [op |-> "subset_with_limit_of", from |-> node, to |-> node,
                  limit |-> k,
                  res |-> IF l.ok THEN subset_with_limit(g, ord, ub, node, l.limit)
                          ELSE l]
    /\ UNCHANGED <<parents, children, map_strs, count, phase, g, ord, dag>>

\* subset_multi_with_limit(nodes, NonZeroUsize::new(k).unwrap())
SubsetMultiWithLimitOf ==
    /\ Idle
    /\ \E node \in Labels, k \in 0..MaxLimit, ub \in UnreachableOutcomes :
         LET l == NonZeroUsizeNewUnwrap(k)
         IN q' = [op |-> "subset_multi_with_limit_of",
                  from |-> <<node>>, to |-> <<node>>, limit |-> k,
                  res |-> IF l.ok
                          THEN subset_multi_with_limit(g, ord, ub, <<node>>, l.limit)
                          ELSE l]
    /\ UNCHANGED <<parents, children, map_strs, count, phase, g, ord, dag>>

\* DirectedGraph::children(nodes)
Children ==
    /\ Idle
    /\ \E nodes \in LabelLists(MaxSeeds) :
         q' = [op |-> "children", from |-> nodes, to |-> nodes,
               res |-> dg_children(g, ord, nodes)]
    /\ UNCHANGED <<parents, children, map_strs, count, phase, g, ord, dag>>

\* DirectedGraph::parents(nodes)
Parents ==
    /\ Idle
    /\ \E nodes \in LabelLists(MaxSeeds) :
         q' = [op |-> "parents", from |-> nodes, to |-> nodes,
               res |-> dg_parents(g, ord, nodes)]
    /\ UNCHANGED <<parents, children, map_strs, count, phase, g, ord, dag>>

\* DirectedGraph::has_parents(nodes)
HasParents ==
    /\ Idle
    /\ \E nodes \in LabelLists(MaxSeeds) :
         q' = [op |-> "has_parents", from |-> nodes, to |-> nodes,
               res |-> has_parents(g, nodes)]
    /\ UNCHANGED <<parents, children, map_strs, count, phase, g, ord, dag>>

\* DirectedGraph::has_children(nodes)
HasChildren ==
    /\ Idle
    /\ \E nodes \in LabelLists(MaxSeeds) :
         q' = [op |-> "has_children", from |-> nodes, to |-> nodes,
               res |-> has_children(g, nodes)]
    /\ UNCHANGED <<parents, children, map_strs, count, phase, g, ord, dag>>

\* DirectedGraph::get_leaves_under(nodes)
GetLeavesUnder ==
    /\ Idle
    /\ \E nodes \in LabelLists(MaxSeeds) :
         q' = [op |-> "get_leaves_under", from |-> nodes, to |-> nodes,
               res |-> get_leaves_under(g, ord, nodes)]
    /\ UNCHANGED <<parents, children, map_strs, count, phase, g, ord, dag>>

\* DirectedAcyclicGraph::subset(node)
DagSubset ==
    /\ Idle /\ phase = "acyclic"
    /\ \E node \in Labels, ub \in UnreachableOutcomes :
         q' = [op |-> "dag_subset", from |-> node, to |-> node,
               res |-> dag_subset(g, ord, ub, node)]
    /\ UNCHANGED <<parents, children, map_strs, count, phase, g, ord, dag>>

\* get_leaves_under and get_all_leaves called on a graph and on the subset
\* taken of it, for the subset's seed r and for a label x.
LeavesAfterSubset ==
    /\ phase = "acyclic"
    /\ q.op = "dag_subset" /\ q.res.ok /\ ~q.res.aborted
    /\ \E x \in Labels, o \in OrderKinds :
         q' = [op |-> "leaves_after_subset", from |-> q.from, to |-> x,
               sub |-> q.res.graph,
               under_r |-> get_leaves_under(g, ord, <<q.from>>),
               sub_under_r |-> get_leaves_under(q.res.graph, o, <<q.from>>),
               sub_all |-> get_all_leaves(q.res.graph),
               all |-> get_all_leaves(g),
               under_x |-> get_leaves_under(g, ord, <<x>>),
               sub_under_x |-> get_leaves_under(q.res.graph, o, <<x>>)]
    /\ UNCHANGED <<parents, children, map_strs, count, phase, g, ord, dag>>

\* DirectedGraph::least_common_parents(selected)
LeastCommonParents ==
    /\ Idle
    /\ \E selected \in LabelLists(MaxSeeds) :
         q' = [op |-> "least_common_parents", from |-> selected, to |-> selected,
               res |-> least_common_parents(g, ord, selected)]
    /\ UNCHANGED <<parents, children, map_strs, count, phase, g, ord, dag>>

\* A call in a sequence of calls on one graph instance is made when the
\* instance is fresh or the call before it has returned.
InSequence ==
    /\ phase = "directed"
    /\ q = NoQuery \/ ("seq" \in DOMAIN q /\ q.seq < MaxQueries)

\* self.buf when the next call of the sequence begins
BufsNow == IF q = NoQuery THEN InternalBufsDefault ELSE q.buf

\* The record of a call of a sequence: what it returned (r.res), what the
\* same call returns on a clone of the graph (fresh), whose buffers are
\* InternalBufs::default(), and the buffers the call found and left.
Sequenced(op, from, to, r, fresh) ==
    [op |-> op, seq |-> IF q = NoQuery THEN 1 ELSE q.seq + 1,
     from |-> from, to |-> to, res |-> r.res, fresh |-> fresh.res,
     before |-> BufsNow, buf |-> r.buf,
     prev_ok |-> IF q = NoQuery THEN TRUE ELSE q.res.ok]

\* DirectedGraph::least_common_parents(selected), one call of a sequence
LeastCommonParentsNext ==
    /\ InSequence
    /\ \E selected \in LabelLists(MaxSeeds) :
         q' = Sequenced("least_common_parents_next", selected, selected,
                        least_common_parents_on(g, ord, BufsNow, selected),
                        least_common_parents_on(g, ord, InternalBufsDefault, selected))
    /\ UNCHANGED <<parents, children, map_strs, count, phase, g, ord, dag>>

\* DirectedGraph::find_path(from, to), one call of a sequence
FindPathNext ==
    /\ InSequence
    /\ \E from \in Labels, to \in Labels :
         q' = Sequenced("find_path_next", from, to,
                        find_path_on(g, ord, BufsNow, from, to),
                        find_path_on(g, ord, InternalBufsDefault, from, to))
    /\ UNCHANGED <<parents, children, map_strs, count, phase, g, ord, dag>>

\* get_all_roots, get_all_leaves and nodes called on the built graph
GetAll ==
    /\ Idle
    /\ q' = [op |-> "get_all", graph |-> g,
             roots |-> get_all_roots(g), leaves |-> get_all_leaves(g),
             nodes |-> dg_nodes(g)]
    /\ UNCHANGED <<parents, children, map_strs, count, phase, g, ord, dag>>

\* get_all_roots, get_all_leaves and nodes called on the graph a subset
\* operation returned
GetAllOfSubset ==
    /\ q.op \in {"subset", "subset_with_limit", "subset_multi", "subset_multi_with_limit"}
    /\ q.res.ok /\ ~q.res.aborted
    /\ q' = [op |-> "get_all", graph |-> q.res.graph,
             roots |-> get_all_roots(q.res.graph),
             leaves |-> get_all_leaves(q.res.graph),
             nodes |-> dg_nodes(q.res.graph)]
    /\ UNCHANGED <<parents, children, map_strs, count, phase, g, ord, dag>>

\* The caller goes on with the DirectedAcyclicGraph that
\* DirectedAcyclicGraph::subset returned; it shares the interner of the
\* graph it was taken of.
KeepDagSubset ==
    /\ phase = "acyclic"
    /\ q.op = "dag_subset" /\ q.res.ok /\ ~q.res.aborted
    /\ g' = q.res.graph
    /\ dag' = [built |-> TRUE, ok |-> TRUE,
               topological_sort |-> q.res.topological_sort]
    /\ q' = NoQuery
    /\ UNCHANGED <<parents, children, map_strs, count, phase, ord>>

\* The caller goes on with the DirectedGraph that DirectedGraph::subset
\* returned; it shares the interner of the graph it was taken of.
KeepSubset ==
    /\ phase = "directed"
    /\ q.op = "subset" /\ q.res.ok /\ ~q.res.aborted
    /\ g' = q.res.graph
    /\ q' = NoQuery
    /\ UNCHANGED <<parents, children, map_strs, count, phase, ord, dag>>

Build == AddEdge \/ BuildDirected

Next ==
    \/ Build \/ BuildAcyclic \/ Release
    \/ FindPath \/ FindPathOneToMany \/ FindAllPaths
    \/ DagFindPath \/ DagFindAllPaths
    \/ Subset
    \/ SubsetWithLimit
    \/ SubsetMulti
    \/ SubsetMultiWithLimit
    \/ SubsetAgain
    \/ SubsetWithLimitOf
    \/ SubsetMultiWithLimitOf
    \/ Children
    \/ Parents
    \/ HasParents
    \/ HasChildren
    \/ GetLeavesUnder
    \/ DagSubset
    \/ LeavesAfterSubset
    \/ LeastCommonParents
    \/ LeastCommonParentsNext
    \/ FindPathNext
    \/ GetAll
    \/ GetAllOfSubset
    \/ KeepDagSubset
    \/ KeepSubset

Spec == Init /\ [][Next]_vars

\* ------------------------------------------------------ graph vocabulary
\* What the properties below are stated in: the edge relation a graph's
\* children_map holds, reachability and distance over it.
SymOf(gr, label) == gr.interner.strs_map[label]

SymsOf(gr, labels) == [i \in 1..Len(labels) |-> SymOf(gr, labels[i])]

HasEdge(gr, p, c) == p \in DOMAIN gr.children_map /\ c \in gr.children_map[p].set

EdgeSet(gr) ==
    {e \in (DOMAIN gr.children_map) \X (DOMAIN gr.children_map) : HasEdge(gr, e[1], e[2])}

RECURSIVE Within(_, _, _)
\* The nodes at most k edges away from a node of S.
Within(gr, S, k) ==
    IF k = 0 THEN S
    ELSE LET R == Within(gr, S, k - 1)
         IN R \cup {c \in DOMAIN gr.children_map : \E p \in R : HasEdge(gr, p, c)}

Reach(gr, a) == Within(gr, {a}, Cardinality(DOMAIN gr.children_map))

Dist(gr, a, b) ==
    Min({k \in 0..Cardinality(DOMAIN gr.children_map) : b \in Within(gr, {a}, k)})

\* path leads from a to b along edges of gr
IsPath(gr, path, a, b) ==
    /\ path # <<>>
    /\ path[1] = a
    /\ path[Len(path)] = b
    /\ \A i \in 1..(Len(path) - 1) : HasEdge(gr, path[i], path[i + 1])

IsSimple(path) == \A i, j \in 1..Len(path) : i # j => path[i] # path[j]

\* ------------------------------------------------------------------ C1
SpecFindPath == Init /\ [][Build \/ Release \/ FindPath]_vars

\* C1: on every graph from build_directed and every pair of its nodes,
\* find_path returns the empty result exactly when `to` is not reachable from
\* `from`, and otherwise a path from `from` to `to` along edges whose number
\* of edges is the least possible (the single node [from] when from = to).
C1_FindPathShortest ==
    (q.op = "find_path" /\ q.res.ok) =>
        LET from == SymOf(g, q.from)
            to == SymOf(g, q.to)
            path == SymsOf(g, q.res.path)
        IN IF to \notin Reach(g, from) THEN path = <<>>
           ELSE /\ IsPath(g, path, from, to)
                /\ Len(path) - 1 = Dist(g, from, to)

\* find_path answered with a two-edge path to a node that has another parent
\* besides the one on the path, in a graph that also holds a longer route.
C1_Witness ==
    /\ q.op = "find_path" /\ q.res.ok
    /\ Len(q.res.path) = 3
    /\ Cardinality(g.parent_map[SymOf(g, q.to)].set) >= 2
    /\ g.n_edges = MaxEdges

\* -------------------------------------------------------------- C2, C5
SpecOneToMany == Init /\ [][Build \/ Release \/ FindPathOneToMany]_vars

\* C2: every non-empty entry i of find_path_one_to_many(from, targets) is a
\* simple path of the graph from `from` to targets[i], whatever the iteration
\* order of the parent sets; it is [from] when from = targets[i].
C2_OneToManyValid ==
    (q.op = "find_path_one_to_many" /\ q.res.ok) =>
        \A i \in 1..Len(q.to) :
            LET from == SymOf(g, q.from)
                to == SymOf(g, q.to[i])
                path == SymsOf(g, q.res.paths[i])
            IN /\ path # <<>> => IsPath(g, path, from, to) /\ IsSimple(path)
               /\ from = to => path = <<from>>

\* C5: entry i of find_path_one_to_many(from, targets) is empty exactly when
\* targets[i] is not reachable from `from`, and otherwise has as many edges as
\* the shortest path from `from` to targets[i], whatever targets precede it.
C5_OneToManyShortest ==
    (q.op = "find_path_one_to_many" /\ q.res.ok) =>
        \A i \in 1..Len(q.to) :
            LET from == SymOf(g, q.from)
                to == SymOf(g, q.to[i])
                path == q.res.paths[i]
            IN IF to \notin Reach(g, from) THEN path = <<>>
               ELSE path # <<>> /\ Len(path) - 1 = Dist(g, from, to)

\* ------------------------------------------------------------------ C6
SpecAllPaths == Init /\ [][Build \/ Release \/ FindAllPaths]_vars

RECURSIVE SimpleWalks(_, _, _)
\* The paths of P together with their extensions by at most k edges of gr
\* that repeat no node.
SimpleWalks(gr, P, k) ==
    IF k = 0 \/ P = {} THEN P
    ELSE P \cup SimpleWalks(gr,
            {Append(x[1], x[2]) :
                x \in {y \in P \X DOMAIN gr.children_map :
                          /\ HasEdge(gr, y[1][Len(y[1])], y[2])
                          /\ y[2] \notin Range(y[1])}},
            k - 1)

\* The simple paths of gr from a to b.
SimplePaths(gr, a, b) ==
    {p \in SimpleWalks(gr, {<<a>>}, Cardinality(DOMAIN gr.children_map)) :
        p[Len(p)] = b}

\* C6: on every directed graph (cycles and self-loops included) and every
\* pair of nodes, find_all_paths returns every simple path from a to b, each
\* once, and nothing else: [[a]] alone when a = b, nothing when b is
\* unreachable.
C6_AllPathsExact ==
    (q.op = "find_all_paths" /\ q.res.ok) =>
        LET from == SymOf(g, q.from)
            to == SymOf(g, q.to)
            ps == [k \in 1..Len(q.res.paths) |-> SymsOf(g, q.res.paths[k])]
        IN /\ Range(ps) = SimplePaths(g, from, to)
           /\ \A i, j \in 1..Len(ps) : i # j => ps[i] # ps[j]
           /\ from = to => ps = <<<<from>>>>
           /\ to \notin Reach(g, from) => ps = <<>>

\* find_all_paths answered with two paths on a graph that has a cycle
\* through the source.
C6_Witness ==
    /\ q.op = "find_all_paths" /\ q.res.ok
    /\ Len(q.res.paths) >= 2
    /\ \E n \in DOMAIN g.children_map :
         n # SymOf(g, q.from) /\ SymOf(g, q.from) \in Reach(g, n)
                              /\ n \in Reach(g, SymOf(g, q.from))

\* -------------------------------------------------------------- C7, C8
SpecTopo == Init /\ [][AddEdge \/ BuildDirected \/ BuildAcyclic]_vars

\* The (parent, child) pairs of symbols fed to the builder so far.
BuilderEdges == {<<parents[i], children[i]>> : i \in 1..Len(parents)}

RECURSIVE After(_, _, _)
\* The nodes reached from a node of S by one up to k edges of E.
After(E, S, k) ==
    LET N == {e[2] : e \in {x \in E : x[1] \in S}}
    IN IF k <= 1 THEN N ELSE N \cup After(E, N, k - 1)

\* E holds a directed cycle (a self-loop is one).
HasCycle(E) == \E e \in E : e[1] \in After(E, {e[1]}, Cardinality(E))

\* C7: build_acyclic returns GraphHasCycle exactly when the edges fed to the
\* builder hold a directed cycle, and a DirectedAcyclicGraph otherwise;
\* build_directed is possible on the same input in both cases.
C7_AcyclicIffNoCycle ==
    [][/\ (phase = "building" /\ dag'.built) =>
            /\ dag'.ok <=> ~HasCycle(BuilderEdges)
            /\ phase' = (IF HasCycle(BuilderEdges) THEN "cyclic" ELSE "acyclic")
       /\ (phase = "building" /\ phase' = "directed") =>
            EdgeSet(g') = BuilderEdges]_vars

\* build_acyclic has refused its input with GraphHasCycle
C7_Witness == phase = "cyclic" /\ dag.built /\ ~dag.ok

\* C8: the topological_sort of a DirectedAcyclicGraph from build_acyclic
\* holds every node of the graph exactly once, and for every edge (p -> c) the
\* child c stands before the parent p.
C8_TopoOrder ==
    phase = "acyclic" =>
        LET topo == dag.topological_sort
        IN /\ Range(topo) = Range(g.nodes)
           /\ Len(topo) = Len(g.nodes)
           /\ \A e \in EdgeSet(g) : Position(topo, e[2]) < Position(topo, e[1])

\* a DAG of MaxEdges edges in which some node has two parents was sorted
C8_Witness ==
    /\ phase = "acyclic"
    /\ g.n_edges = MaxEdges
    /\ \E n \in DOMAIN g.parent_map : Cardinality(g.parent_map[n].set) >= 2

\* -------------------------------------------------------------- C3, C4
SpecDag ==
    Init /\ [][AddEdge \/ BuildAcyclic \/ Release \/ DagFindPath \/ DagFindAllPaths]_vars

\* C3: on every DirectedAcyclicGraph from build_acyclic and every pair of its
\* nodes, for every iteration order of the child sets, find_all_paths(a, b)
\* returns exactly the paths from a to b, each once.
C3_DagAllPathsExact ==
    (q.op = "dag_find_all_paths" /\ q.res.ok) =>
        LET from == SymOf(g, q.from)
            to == SymOf(g, q.to)
            ps == [k \in 1..Len(q.res.paths) |-> SymsOf(g, q.res.paths[k])]
        IN /\ Range(ps) = SimplePaths(g, from, to)
           /\ \A i, j \in 1..Len(ps) : i # j => ps[i] # ps[j]

\* C4: on every DirectedAcyclicGraph and every pair of nodes from # to, for
\* every order the topological sort may take, find_path returns a path from
\* `from` to `to` along edges whenever `to` is reachable from `from`, and the
\* empty result only when it is not.
C4_DagFindPathSome ==
    (q.op = "dag_find_path" /\ q.res.ok /\ q.from # q.to) =>
        LET from == SymOf(g, q.from)
            to == SymOf(g, q.to)
            path == SymsOf(g, q.res.path)
        IN IF to \in Reach(g, from) THEN IsPath(g, path, from, to)
           ELSE path = <<>>

\* -------------------------------------------------------------- C9, C10
SpecSubset == Init /\ [][Build \/ Release \/ Subset]_vars

\* C9: for every graph and every node n of it, subset(n) is returned, its
\* nodes are exactly the nodes reachable from n (n included) in the original
\* graph, and its edges are exactly the original edges between those nodes.
C9_SubsetInduced ==
    (q.op = "subset" /\ q.res.ok) =>
        /\ ~q.res.aborted
        /\ LET n == SymOf(g, q.from)
               R == Reach(g, n)
               sub == q.res.graph
           IN /\ Range(sub.nodes) = R
              /\ Len(sub.nodes) = Cardinality(R)
              /\ EdgeSet(sub) = {e \in EdgeSet(g) : e[1] \in R /\ e[2] \in R}

\* C10: for every graph, acyclic or cyclic, and every node n of it (also one
\* on a cycle or with a self-loop), subset(n) is returned and its roots are
\* exactly {n}.
C10_SubsetRoots ==
    (q.op = "subset" /\ q.res.ok) =>
        /\ ~q.res.aborted
        /\ q.res.graph.roots = <<SymOf(g, q.from)>>

\* ------------------------------------------------------------------ C11
SpecSubsetLimit == Init /\ [][Build \/ Release \/ SubsetWithLimit]_vars

\* C11: for every graph (cyclic ones included), every node n of it and every
\* k >= 1, subset_with_limit(n, k) returns a graph whose nodes are exactly the
\* nodes at most k edges away from n, and in which every node exactly k edges
\* away is a leaf: its children slot is Empty and it is listed in leaves.
C11_SubsetLimitNodes ==
    (q.op = "subset_with_limit" /\ q.res.ok) =>
        /\ ~q.res.aborted
        /\ LET n == SymOf(g, q.from)
               near == Within(g, {n}, q.limit)
               rim == near \ Within(g, {n}, q.limit - 1)
               sub == q.res.graph
           IN /\ Range(sub.nodes) = near
              /\ Len(sub.nodes) = Cardinality(near)
              /\ \A x \in rim : /\ is_empty(sub.children_map[x])
                                /\ x \in Range(sub.leaves)

\* ------------------------------------------------------------------ C12
SpecSubsetMulti == Init /\ [][Build \/ Release \/ SubsetMulti]_vars

\* C12: for every graph and every non-empty list of seeds, in any order,
\* subset_multi(seeds) returns a graph whose roots are exactly the seeds that
\* cannot be reached from another seed.
C12_SubsetMultiRoots ==
    (q.op = "subset_multi" /\ q.res.ok /\ q.from # <<>>) =>
        /\ ~q.res.aborted
        /\ LET seeds == Range(SymsOf(g, q.from))
           IN Range(q.res.graph.roots) =
                {s \in seeds : ~\E t \in seeds \ {s} : s \in Reach(g, t)}

\* ------------------------------------------------------------ C13 .. C15
SpecSubsetAll ==
    Init /\ [][Build \/ Release \/ Subset \/ SubsetWithLimit
                 \/ SubsetMulti \/ SubsetMultiWithLimit]_vars

\* A subset operation has returned a graph.
SubsetReturned ==
    /\ q.op \in {"subset", "subset_with_limit", "subset_multi", "subset_multi_with_limit"}
    /\ q.res.ok
    /\ ~q.res.aborted

\* n is in roots iff its parent slot is Empty, and in leaves iff its children
\* slot is Empty.
RootsLeavesMatchSlots(gr) ==
    \A n \in DOMAIN gr.parent_map :
        /\ n \in Range(gr.roots) <=> is_empty(gr.parent_map[n])
        /\ n \in Range(gr.leaves) <=> is_empty(gr.children_map[n])

\* C13: in every graph produced by build_directed or by a subset operation
\* (subset, subset_with_limit, subset_multi, subset_multi_with_limit), for
\* every symbol n: n is in roots iff parent_map[n] is Empty, and n is in
\* leaves iff children_map[n] is Empty.
C13_RootsLeavesSlots ==
    /\ phase = "directed" => RootsLeavesMatchSlots(g)
    /\ SubsetReturned => RootsLeavesMatchSlots(q.res.graph)

\* subset_multi_with_limit has returned a graph in which a node that has
\* children in the original graph was cut off as a leaf
C13_Witness ==
    /\ q.op = "subset_multi_with_limit"
    /\ SubsetReturned
    /\ Len(q.from) = MaxSeeds
    /\ \E n \in Range(q.res.graph.leaves) : is_initialized(g.children_map[n])
    /\ Len(q.res.graph.roots) = 1


\* The (parent, child) pairs recorded in the parent map of a graph.
ParentEdgeSet(gr) ==
    {e \in (DOMAIN gr.parent_map) \X (DOMAIN gr.parent_map) :
        e[1] \in gr.parent_map[e[2]].set}

\* The stored edge count is the total size of the children sets and the
\* total size of the parent sets.
EdgeCountMatches(gr) ==
    /\ gr.n_edges = Cardinality(EdgeSet(gr))
    /\ gr.n_edges = Cardinality(ParentEdgeSet(gr))

\* C14: in every graph produced by build_directed or by a subset operation
\* the stored edge count equals the sum of the sizes of the children sets and
\* the sum of the sizes of the parent sets; after build_directed it equals
\* the number of distinct (parent, child) pairs given to the builder, however
\* often each was added.
C14_EdgeCount ==
    [][/\ phase' = "directed" => EdgeCountMatches(g')
       /\ SubsetReturned' => EdgeCountMatches(q'.res.graph)
       /\ (phase = "building" /\ phase' = "directed") =>
            g'.n_edges = Cardinality(BuilderEdges)]_vars

\* C15: in every graph produced by build_directed or by a subset operation,
\* with or without depth limit, for all symbols p and c: c is in the children
\* set of p iff p is in the parent set of c.
C15_MapsMirror ==
    /\ phase = "directed" => EdgeSet(g) = ParentEdgeSet(g)
    /\ SubsetReturned => EdgeSet(q.res.graph) = ParentEdgeSet(q.res.graph)

\* ------------------------------------------------------------------ C16
SpecSubsetTwice == Init /\ [][Build \/ Release \/ Subset \/ SubsetAgain]_vars

\* C16: for every graph and every node n of it, subset(n).subset(n) is
\* returned and has the same node set and the same edge set as subset(n).
C16_SubsetIdempotent ==
    q.op = "subset_subset" =>
        /\ q.res.ok
        /\ ~q.res.aborted
        /\ Range(q.res.graph.nodes) = Range(q.first.nodes)
        /\ EdgeSet(q.res.graph) = EdgeSet(q.first)

\* ------------------------------------------------------------------ C17
SpecZeroLimit ==
    Init /\ [][Build \/ Release \/ SubsetWithLimitOf \/ SubsetMultiWithLimitOf]_vars

\* C17: subset_with_limit and subset_multi_with_limit called with the limit
\* 0 fail with the error ZeroSubsetLimit and produce no graph.
C17_ZeroLimitRejected ==
    (q.op \in {"subset_with_limit_of", "subset_multi_with_limit_of"} /\ q.limit = 0) =>
        /\ ~q.res.ok
        /\ "graph" \notin DOMAIN q.res
        /\ "err" \in DOMAIN q.res
        /\ q.res.err = "ZeroSubsetLimit"

\* ------------------------------------------------------------------ C18
SpecLookup ==
    Init /\ [][Build \/ Release \/ FindPath \/ Subset
                 \/ Children \/ Parents \/ HasParents \/ HasChildren
                 \/ FindPathOneToMany \/ SubsetMultiWithLimit]_vars

\* The labels handed to the call in progress, in input order.
LabelsGiven ==
    IF q.op \in {"find_path"} THEN <<q.from, q.to>>
    ELSE IF q.op = "find_path_one_to_many" THEN <<q.from>> \o q.to
    ELSE IF q.op = "subset" THEN <<q.from>>
    ELSE q.from

\* The label was never interned.
NeverInterned(label) == label \notin DOMAIN g.interner.strs_map

\* C18: a query given a label that was never interned returns NodeNotExist
\* carrying that label; a batch operation (has_parents, has_children,
\* children, parents, find_path_one_to_many, subset_multi_with_limit) returns
\* the error of the first such label in input order and nothing else, no
\* partial result for the labels before it.
C18_NodeNotExistFirst ==
    q.op # "none" =>
        LET given == LabelsGiven
            bad == {i \in 1..Len(given) : NeverInterned(given[i])}
        IN IF bad = {} THEN q.res.ok
           ELSE q.res = [ok |-> FALSE, err |-> given[Min(bad)]]

\* find_path_one_to_many was given a known label and then two different
\* unknown ones
C18_Witness ==
    /\ q.op = "find_path_one_to_many"
    /\ Len(LabelsGiven) >= 3
    /\ ~NeverInterned(LabelsGiven[1])
    /\ NeverInterned(LabelsGiven[2])
    /\ NeverInterned(LabelsGiven[3])
    /\ LabelsGiven[2] # LabelsGiven[3]
    /\ ~q.res.ok

\* ------------------------------------------------------------------ C19
SpecLeaves == Init /\ [][Build \/ Release \/ GetLeavesUnder]_vars

\* The nodes of gr with an Empty children slot that can be reached from a
\* node of S (a node of S itself included).
LeavesBelow(gr, S) ==
    {x \in Within(gr, S, Cardinality(DOMAIN gr.children_map)) :
        is_empty(gr.children_map[x])}

\* C19: get_leaves_under(seeds) returns exactly the nodes whose children
\* slot is Empty and that are reachable from some seed (a seed that is a leaf
\* included), each exactly once also when seeds are repeated or their
\* descendants overlap, and the empty result when no leaf is reachable.
C19_LeavesUnderExact ==
    (q.op = "get_leaves_under" /\ q.res.ok) =>
        LET out == SymsOf(g, q.res.nodes)
            want == LeavesBelow(g, Range(SymsOf(g, q.from)))
        IN /\ Range(out) = want
           /\ Len(out) = Cardinality(want)

\* two seeds that share a leaf below them, and a second leaf, were asked for
C19_Witness ==
    /\ q.op = "get_leaves_under" /\ q.res.ok
    /\ Len(q.from) = 2
    /\ LET a == SymOf(g, q.from[1])
           b == SymOf(g, q.from[2])
       IN /\ a # b
          /\ LeavesBelow(g, {a}) \cap LeavesBelow(g, {b}) # {}
    /\ Len(q.res.nodes) >= 2

\* ------------------------------------------------------------------ C20
SpecDagLeaves ==
    Init /\ [][AddEdge \/ BuildAcyclic \/ Release \/ DagSubset \/ LeavesAfterSubset]_vars

\* C20: for every DAG and every node r of it, get_leaves_under([r]) on the
\* original graph, get_leaves_under([r]) on subset(r) and get_all_leaves() of
\* subset(r) are the same set of nodes; when r is the only root of the
\* original they are also get_all_leaves() of the original; and for every
\* node x of subset(r), get_leaves_under([x]) gives the same set on subset(r)
\* as on the original.
C20_LeavesAcrossSubset ==
    /\ (phase = "acyclic" /\ q.op = "dag_subset" /\ ~NeverInterned(q.from))
         => (q.res.ok /\ ~q.res.aborted)
    /\ q.op = "leaves_after_subset" =>
         /\ q.under_r.ok /\ q.sub_under_r.ok
         /\ Range(q.under_r.nodes) = Range(q.sub_under_r.nodes)
         /\ Range(q.under_r.nodes) = Range(q.sub_all)
         /\ g.roots = <<SymOf(g, q.from)>> => Range(q.all) = Range(q.under_r.nodes)
         /\ (~NeverInterned(q.to) /\ SymOf(g, q.to) \in Range(q.sub.nodes)) =>
              /\ q.under_x.ok /\ q.sub_under_x.ok
              /\ Range(q.under_x.nodes) = Range(q.sub_under_x.nodes)

\* the subset was taken below a node that is not the only root, and the
\* leaves were asked for under a node of the subset other than the seed
C20_Witness ==
    /\ q.op = "leaves_after_subset"
    /\ Len(g.roots) >= 2
    /\ q.to # q.from
    /\ ~NeverInterned(q.to)
    /\ SymOf(g, q.to) \in Range(q.sub.nodes)
    /\ Len(q.sub_under_x.nodes) >= 1
    /\ Len(q.sub_all) >= 2

\* ------------------------------------------------------------------ C21
SpecLcp == Init /\ [][Build \/ Release \/ LeastCommonParents]_vars

\* The parents a symbol has according to the edges of the graph.
ParentsOf(gr, s) == {e[1] : e \in {x \in EdgeSet(gr) : x[2] = s}}

\* C21: least_common_parents(S) returns exactly the elements of S that have
\* no parent in S: the result is within S, no returned element has a parent
\* in S, every element of S left out has one, and the result is strictly
\* ascending by symbol, so without duplicates, even when S repeats a label.
C21_LeastCommonParents ==
    (q.op = "least_common_parents" /\ q.res.ok) =>
        LET S == Range(SymsOf(g, q.from))
            M == SymsOf(g, q.res.nodes)
        IN /\ Range(M) \subseteq S
           /\ \A m \in Range(M) : ParentsOf(g, m) \cap S = {}
           /\ \A s \in S \ Range(M) : ParentsOf(g, s) \cap S # {}
           /\ IsStrictlyAscending(M)

\* of two selected labels one is returned and the other, which has a parent
\* in the selection and another one outside it, is dropped
C21_Witness ==
    /\ q.op = "least_common_parents" /\ q.res.ok
    /\ Len(q.from) = 2
    /\ Len(q.res.nodes) = 1
    /\ \E s \in Range(SymsOf(g, q.from)) :
         /\ s \notin Range(SymsOf(g, q.res.nodes))
         /\ \E p \in ParentsOf(g, s) : p \notin Range(SymsOf(g, q.from))

\* ------------------------------------------------------------------ C22
SpecRel == Init /\ [][Build \/ Release \/ Children \/ Parents]_vars

\* The children a symbol has according to the edges of the graph.
ChildrenOf(gr, s) == {e[2] : e \in {x \in EdgeSet(gr) : x[1] = s}}

RECURSIVE BlocksMatch(_, _, _)
\* out is made of one block per set of sets, in order, each block listing
\* the elements of its set once each, in some order.
BlocksMatch(out, sets, i) ==
    IF i > Len(sets) THEN out = <<>>
    ELSE LET n == Cardinality(sets[i])
         IN /\ Len(out) >= n
            /\ Range(SubSeq(out, 1, n)) = sets[i]
            /\ BlocksMatch(SubSeq(out, n + 1, Len(out)), sets, i + 1)

\* C22: children(labels) emits, for the inputs in order, every element of
\* each input's child set and removes no duplicate, so that a node that is a
\* child of k of the inputs appears k times and the length is the sum of the
\* set sizes; parents(labels) does the same with the parent sets.
C22_NeighboursKeepDuplicates ==
    /\ (q.op = "children" /\ q.res.ok) =>
          LET ids == SymsOf(g, q.from)
          IN BlocksMatch(SymsOf(g, q.res.nodes),
                         [i \in 1..Len(ids) |-> ChildrenOf(g, ids[i])], 1)
    /\ (q.op = "parents" /\ q.res.ok) =>
          LET ids == SymsOf(g, q.from)
          IN BlocksMatch(SymsOf(g, q.res.nodes),
                         [i \in 1..Len(ids) |-> ParentsOf(g, ids[i])], 1)

\* parents of two different nodes that share a parent: the shared parent is
\* listed twice
C22_Witness ==
    /\ q.op = "parents" /\ q.res.ok
    /\ Len(q.from) = 2 /\ q.from[1] # q.from[2]
    /\ \E i, j \in 1..Len(q.res.nodes) : i # j /\ q.res.nodes[i] = q.res.nodes[j]
    /\ Len(q.res.nodes) >= 3

\* ------------------------------------------------------------------ C23
SpecBufs ==
    Init /\ [][Build \/ LeastCommonParentsNext \/ FindPathNext]_vars

\* C23: whatever calls were made before on the same graph instance, those
\* that returned NodeNotExist or an empty result included, a call returns
\* what the same call returns on a fresh clone of the graph, whose scratch
\* buffers are empty: what earlier calls left in the buffers has no
\* influence on a later result.
C23_BuffersDoNotLeak ==
    "seq" \in DOMAIN q => q.res = q.fresh

\* a call that returns a non-empty result after a call that returned
\* NodeNotExist and left symbols in a buffer the later call uses
C23_Witness ==
    /\ "seq" \in DOMAIN q
    /\ q.seq = 2
    /\ ~q.prev_ok
    /\ q.before.u32x1_vec_0 # <<>>
    /\ q.op = "least_common_parents_next"
    /\ q.res.ok /\ q.res.nodes # <<>>

\* ------------------------------------------------------------------ C24
\* Every edge of the graph has its reverse edge.
EveryEdgeReversed(gr) == \A e \in EdgeSet(gr) : <<e[2], e[1]>> \in EdgeSet(gr)

\* C24: find_path_one_to_many returns for every graph, source and target
\* list, graphs in which every edge has its reverse edge included, and when
\* all the labels exist it returns Ok with one entry per target.
C24_OneToManyReturns ==
    q.op = "find_path_one_to_many" =>
        /\ q.res.ok <=> (~NeverInterned(q.from)
                          /\ \A i \in 1..Len(q.to) : ~NeverInterned(q.to[i]))
        /\ q.res.ok => Len(q.res.paths) = Len(q.to)

\* the call has returned on a graph in which every edge has its reverse,
\* with a path to each of two different targets
C24_Witness ==
    /\ q.op = "find_path_one_to_many" /\ q.res.ok
    /\ EveryEdgeReversed(g)
    /\ Cardinality(EdgeSet(g)) = MaxEdges
    /\ Len(q.to) = MaxTargets
    /\ \A i \in 1..Len(q.to) : Len(q.res.paths[i]) >= 2
    /\ q.to[1] # q.to[2]

\* ------------------------------------------------------------------ C25
SpecSeparator ==
    Init /\ [][Build \/ BuildAcyclic \/ Release \/ FindAllPaths \/ DagFindAllPaths]_vars

\* Every returned path leads from a to b, and one is returned when b can be
\* reached from a.
PathsWhole(gr, paths, a, b) ==
    /\ \A k \in 1..Len(paths) :
          /\ paths[k] # <<>>
          /\ paths[k][1] = a
          /\ paths[k][Len(paths[k])] = b
    /\ b \in Reach(gr, a) => paths # <<>>

\* C25: the value written between the paths in the flattened buffers of
\* find_all_paths, in the general search and in the search on a DAG alike,
\* is the symbol of no node, so that no returned path is split, truncated or
\* dropped for holding a particular node.
C25_SeparatorIsNoSymbol ==
    /\ phase \in {"directed", "acyclic"} => RESERVED \notin Range(g.nodes)
    /\ phase = "acyclic" => DagPathSeparator \notin Range(g.nodes)
    /\ (q.op = "find_all_paths" /\ q.res.ok) =>
          PathsWhole(g, [k \in 1..Len(q.res.paths) |-> SymsOf(g, q.res.paths[k])],
                     SymOf(g, q.from), SymOf(g, q.to))
    /\ (q.op = "dag_find_all_paths" /\ q.res.ok) =>
          PathsWhole(g, [k \in 1..Len(q.res.paths) |-> SymsOf(g, q.res.paths[k])],
                     SymOf(g, q.from), SymOf(g, q.to))

\* ------------------------------------------------------------------ C26
SpecSorted ==
    Init /\ [][Build \/ Release \/ Subset \/ SubsetWithLimit \/ SubsetMulti
                 \/ SubsetMultiWithLimit \/ GetAll \/ GetAllOfSubset]_vars

\* The labels of a list, each replaced by its place in the order in which
\* the builder first saw the labels.
InsertionRank(gr, labels) == SymsOf(gr, labels)

\* C26: in every graph produced by build_directed or by a subset operation
\* roots, leaves and nodes are strictly ascending by symbol, so without
\* duplicates, and get_all_roots, get_all_leaves and nodes return the labels
\* in that order, symbols following the first insertion of the labels.
C26_VectorsAscending ==
    /\ phase = "directed" =>
          /\ IsStrictlyAscending(g.roots)
          /\ IsStrictlyAscending(g.leaves)
          /\ IsStrictlyAscending(g.nodes)
    /\ SubsetReturned =>
          /\ IsStrictlyAscending(q.res.graph.roots)
          /\ IsStrictlyAscending(q.res.graph.leaves)
          /\ IsStrictlyAscending(q.res.graph.nodes)
    /\ q.op = "get_all" =>
          /\ InsertionRank(q.graph, q.roots) = q.graph.roots
          /\ InsertionRank(q.graph, q.leaves) = q.graph.leaves
          /\ InsertionRank(q.graph, q.nodes) = q.graph.nodes
          /\ IsStrictlyAscending(q.roots)
          /\ IsStrictlyAscending(q.leaves)
          /\ IsStrictlyAscending(q.nodes)

\* the three lists of a subset that has two roots, two leaves and every
\* label among its nodes
C26_Witness ==
    /\ q.op = "get_all"
    /\ q.graph # g
    /\ Len(q.roots) >= 2 /\ Len(q.leaves) >= 2
    /\ Len(q.nodes) = NumLabels

\* ------------------------------------------------------------------ C27
SpecDagKept ==
    Init /\ [][AddEdge \/ BuildAcyclic \/ Release \/ DagSubset \/ KeepDagSubset]_vars

\* The graph at hand was returned by a subset operation: it has fewer nodes
\* than its interner has labels.
IsSubsetGraph(gr) == Len(gr.nodes) < ResolverLen(gr.interner)

\* C27: on every DirectedAcyclicGraph, one returned by
\* DirectedAcyclicGraph::subset included, and for every label that resolves
\* on it, DirectedAcyclicGraph::subset returns a DAG: the topological sort of
\* the subset never reports a cycle and the call does not abort.
C27_DagSubsetIsDag ==
    (phase = "acyclic" /\ q.op = "dag_subset" /\ ~NeverInterned(q.from)) =>
        /\ q.res.ok /\ ~q.res.aborted /\ ~q.res.panic
        /\ ~HasCycle(EdgeSet(q.res.graph))

\* a smaller subset that still has an edge, taken of a DAG that is itself a
\* subset
C27_Witness ==
    /\ phase = "acyclic" /\ q.op = "dag_subset" /\ q.res.ok
    /\ IsSubsetGraph(g)
    /\ q.res.graph.n_edges >= 1
    /\ q.res.graph # g

\* ------------------------------------------------------------------ C28
\* C28: in build_directed and in every subset operation, on any graph and
\* any list of seeds, or_init is applied to slots that are Uninitialized or
\* populated only, never to a slot that into_empty has made Empty: the branch
\* of or_init marked unreachable is never run.
C28_OrInitNeverOnEmpty ==
    (/\ q.op \in {"subset", "subset_with_limit", "subset_multi",
                  "subset_multi_with_limit"}
     /\ q.res.ok) => ~q.res.hit

\* ------------------------------------------------------------------ C29
SpecDagKeptPath ==
    Init /\ [][AddEdge \/ BuildAcyclic \/ Release \/ DagSubset \/ KeepDagSubset
                 \/ DagFindPath]_vars

\* C29: on every DirectedAcyclicGraph, from build_acyclic or from
\* DirectedAcyclicGraph::subset, and for every pair of labels that resolve,
\* labels of the parent graph that are no nodes of a subset included,
\* find_path returns a result and does not abort: both symbols occur in
\* topological_sort.
C29_DagFindPathNoAbort ==
    (/\ phase = "acyclic" /\ q.op = "dag_find_path"
     /\ ~NeverInterned(q.from) /\ ~NeverInterned(q.to)) =>
        /\ q.res.ok /\ ~q.res.panic
        /\ q.from # q.to =>
              /\ SymOf(g, q.from) \in Range(dag.topological_sort)
              /\ SymOf(g, q.to) \in Range(dag.topological_sort)

\* ------------------------------------------------------------------ C30
SpecSubsetKept ==
    Init /\ [][Build \/ Release \/ Subset \/ KeepSubset]_vars

\* C30: every node of the graph returned by g.subset(x) is a node of g, also
\* when g is itself a subset graph that shares the resolver of its parent and
\* x is a label of the parent.
C30_SubsetNodesAreNodes ==
    (/\ phase = "directed" /\ q.op = "subset"
     /\ q.res.ok /\ ~q.res.aborted) =>
        Range(q.res.graph.nodes) \subseteq Range(g.nodes)

=============================================================================
